---- MODULE Spec2Model ----
(***************************************************************************)
(* Model of applications/lv_test.c: the serial packet transport between    *)
(* the UART receive callback, the message queue, the packet worker thread  *)
(* and the LVGL thread, and the task table the packets rewrite.            *)
(*                                                                         *)
(* Bytes are one-character strings.  C strings are sequences of bytes; a   *)
(* NUL byte ends the part of an array the str* functions look at.          *)
(***************************************************************************)
EXTENDS Integers, Sequences, FiniteSets, TLC

\* ------------------------------------------------------------------------
\* Program constants
\* ------------------------------------------------------------------------
UART_MSG_MAX_SIZE == 1024
UART_MSG_QUEUE_SIZE == 4
UART_RX_BUFFER_SIZE == 2048
NOISE_THRESHOLD == 100
MAX_TASK_COUNT == 20
TYPE_SIZE == 64
DATA_SIZE == 1024
CHECKSUM_STR_SIZE == 16
COMBINED_SIZE == 1024
TITLE_SIZE == 128
LIST_NAME_SIZE == 64

\* ------------------------------------------------------------------------
\* Bounds of the model
\* ------------------------------------------------------------------------
\* bytes the buttons may put on the serial output
MaxOut == 12
\* packets handed to the worker in SpecPacket
MaxPackets == 3
\* bytes one callback invocation reads in SpecLive
LiveChunk == 16
\* task tokens beyond the capacity of the table in the longest task list
ExtraTasks == 2
\* SpecOverflow: bytes one callback invocation reads while more than OverTail
\* bytes are to come; the last OverTail bytes arrive one per invocation
OverBlock == 256
OverTail == 64

NUL == "NUL"
PKT_START == <<"<", "P", "K", "T", "_", "S", "T", "A", "R", "T", ">">>
PKT_END == <<"<", "P", "K", "T", "_", "E", "N", "D", ">">>
PKT_DELIMITER == <<"|">>
DATA_DELIMITER == ","

\* the printable ASCII characters, code 32 first
Ascii ==
    <<" ", "!", "\"", "#", "$", "%", "&", "'", "(", ")", "*", "+", ",", "-", ".", "/",
      "0", "1", "2", "3", "4", "5", "6", "7", "8", "9", ":", ";", "<", "=", ">", "?",
      "@", "A", "B", "C", "D", "E", "F", "G", "H", "I", "J", "K", "L", "M", "N", "O",
      "P", "Q", "R", "S", "T", "U", "V", "W", "X", "Y", "Z", "[", "\\", "]", "^", "_",
      "GRAVE", "a", "b", "c", "d", "e", "f", "g", "h", "i", "j", "k", "l", "m", "n", "o",
      "p", "q", "r", "s", "t", "u", "v", "w", "x", "y", "z", "{", "|", "}", "~">>

TAB == "\t"

\* the value of a byte as the C code reads it (char is unsigned on the target)
Ord(c) ==
    IF c = NUL THEN 0
    ELSE IF c = TAB THEN 9
    ELSE 31 + (CHOOSE i \in 1..Len(Ascii) : Ascii[i] = c)

Digits == <<"0", "1", "2", "3", "4", "5", "6", "7", "8", "9">>
IsDigit(c) == \E i \in 1..10 : Digits[i] = c
DigitVal(c) == (CHOOSE i \in 1..10 : Digits[i] = c) - 1

\* ------------------------------------------------------------------------
\* C string helpers
\* ------------------------------------------------------------------------
\* the least element of a non-empty set of integers
Min(S) == CHOOSE i \in S : \A j \in S : i <= j

\* Operators that walk a sequence first bind it to a variable (s \in {a}), so
\* that the sequence is computed once and not at every use of the parameter.

\* 1-based position of the first NUL of array a, Len(a)+1 if none
NulPos(a) ==
    LET Z == {i \in 1..Len(a) : a[i] = NUL}
    IN IF Z = {} THEN Len(a) + 1 ELSE Min(Z)

\* the C string held in array a: the bytes before the first NUL
CStr(a) == CHOOSE r \in {SubSeq(s, 1, NulPos(s) - 1) : s \in {a}} : TRUE

rt_strlen(a) == Len(CStr(a))

\* n occurs in h at 1-based position i
MatchAt(h, n, i) ==
    /\ i + Len(n) - 1 <= Len(h)
    /\ \A k \in 1..Len(n) : h[i + k - 1] = n[k]

\* the positions at which n occurs in h
Matches(h, n) == {i \in 1..(Len(h) - Len(n) + 1) : MatchAt(h, n, i)}

\* the first occurrence of n in the byte sequence h, 0 if none
FirstMatch(h, n) ==
    CHOOSE r \in {IF P = {} THEN 0 ELSE Min(P) :
                  P \in {Matches(s, n) : s \in {h}}} : TRUE

\* strstr(h, n): 1-based position of the first occurrence of n in the C string
\* h, 0 for NULL
strstr(h, n) == FirstMatch(CStr(h), n)

\* the suffix of C string h from 1-based position i (the pointer h + i - 1)
Tail_(h, i) == SubSeq(h, i, Len(h))

\* the first n bytes of C string h, all of it when it is shorter
Prefix(h, n) == SubSeq(h, 1, IF n < Len(h) THEN n ELSE Len(h))

\* rt_snprintf(buf, size, ...) of text: at most size-1 bytes are stored
Truncate(text, size) == Prefix(text, size - 1)

\* strchr(h, c): 1-based position of the first c in h, 0 for NULL
strchr(h, c) == FirstMatch(h, <<c>>)

RECURSIVE SumOrd(_, _, _)
\* sum of the byte values of h[lo..hi]
SumOrd(h, lo, hi) ==
    IF lo > hi THEN 0
    ELSE IF lo = hi THEN Ord(h[lo])
    ELSE LET mid == (lo + hi) \div 2
         IN SumOrd(h, lo, mid) + SumOrd(h, mid + 1, hi)

IsSpace(c) == c \in {" ", TAB}

RECURSIVE DigitsValue(_, _, _)
\* the value of the run of digits of h that starts at i, after acc
DigitsValue(h, i, acc) ==
    IF i > Len(h) \/ ~IsDigit(h[i]) THEN acc
    ELSE DigitsValue(h, i + 1, acc * 10 + DigitVal(h[i]))

\* atoi(h): leading white space, an optional sign, then digits
atoi(h) ==
    LET NS == {i \in 1..Len(h) : ~IsSpace(h[i])}
        i0 == IF NS = {} THEN Len(h) + 1 ELSE Min(NS)
        neg == i0 <= Len(h) /\ h[i0] = "-"
        i1 == IF i0 <= Len(h) /\ h[i0] \in {"-", "+"} THEN i0 + 1 ELSE i0
        v == DigitsValue(h, i1, 0)
    IN IF neg THEN 0 - v ELSE v

\* the decimal digits of n >= 0 ("%d")
RECURSIVE Dec(_)
Dec(n) == IF n < 10 THEN <<Digits[n + 1]>> ELSE Dec(n \div 10) \o <<Digits[(n % 10) + 1]>>

\* ------------------------------------------------------------------------
\* State
\* ------------------------------------------------------------------------
VARIABLES
    uart_rx_buffer,       \* uart_rx_buffer[0 .. uart_rx_index): the bytes accumulated
    in_packet,            \* TRUE between a START marker and its END marker
    rx_msg,               \* the callback's static uart_msg_t
    uart_msg_queue,       \* messages held by the RT-Thread message queue, head first
    oob_write,            \* a write past the end of uart_msg_t.data has happened
    task_info_array,      \* MAX_TASK_COUNT task_info_t slots (1-based here)
    current_task_count,
    selected_task_index,
    task_label,           \* text shown by guider_ui.task_label
    index_label,          \* text shown by guider_ui.index_label
    ui_mutex,             \* [owner, hold] of the recursive RT-Thread mutex
    pc,                   \* position of the LVGL thread and of the worker thread
    msg,                  \* the worker thread's local uart_msg_t
    esp32_uart_dev,       \* TRUE once the serial device is open and the callback set
    uart_out,             \* bytes written to the serial device
    wire,                 \* bytes the peer has sent that the driver has not delivered yet
    fed,                  \* history: bytes delivered to the receive callback
    emitted,              \* history: frames rt_mq_send accepted
    dropped,              \* history: frames rt_mq_send refused (queue full)
    dispatched,           \* history: messages the worker passed to process_esp32_packet
    touch                 \* history: the last access to the shared table or UI text

rxvars == <<uart_rx_buffer, in_packet, rx_msg, uart_msg_queue, oob_write>>
tablevars == <<task_info_array, current_task_count, selected_task_index,
               task_label, index_label>>
threadvars == <<ui_mutex, pc, msg>>
devvars == <<esp32_uart_dev, uart_out>>
histvars == <<wire, fed, emitted, dropped, dispatched, touch>>
vars == <<rxvars, tablevars, threadvars, devvars, histvars>>

uart_rx_index == Len(uart_rx_buffer)

\* ------------------------------------------------------------------------
\* Message queue (RT-Thread kernel, rt_mq_create(..., UART_MSG_QUEUE_SIZE, FIFO))
\* ------------------------------------------------------------------------
\* rt_mq_send never waits: a full queue refuses the message (-RT_EFULL)
rt_mq_full(q) == Len(q) >= UART_MSG_QUEUE_SIZE

rt_mq_send(q, m) == IF rt_mq_full(q) THEN q ELSE Append(q, m)

\* ------------------------------------------------------------------------
\* esp32_uart_rx_callback
\* ------------------------------------------------------------------------
\* the message built from the frame buf[1..pkt_len]: rt_strncpy copies pkt_len
\* bytes into data[UART_MSG_MAX_SIZE] and data[pkt_len] is set to NUL, with no
\* check of pkt_len against the size of data.  What rt_mq_send copies is the
\* struct: the first UART_MSG_MAX_SIZE bytes and len.
BuildMsg(buf, pkt_len) ==
    [data |-> IF pkt_len < UART_MSG_MAX_SIZE
              THEN SubSeq(buf, 1, pkt_len) \o <<NUL>>
              ELSE SubSeq(buf, 1, UART_MSG_MAX_SIZE),
     len |-> pkt_len]

MsgOverflows(pkt_len) == pkt_len >= UART_MSG_MAX_SIZE

\* a START search that keeps the buffer however long it has grown
SeekStartKeep(buf) ==
    LET pkt_start == strstr(buf, PKT_START) IN
    IF pkt_start # 0
    THEN [buf |-> SubSeq(buf, pkt_start, Len(buf)), in_packet |-> TRUE]
    ELSE [buf |-> buf, in_packet |-> FALSE]

\* after the START search (lines 660-684)
SeekStart(buf) ==
    LET pkt_start == strstr(buf, PKT_START) IN
    IF pkt_start # 0
    THEN [buf |-> SubSeq(buf, pkt_start, Len(buf)), in_packet |-> TRUE]
    ELSE IF Len(buf) > NOISE_THRESHOLD
         THEN [buf |-> <<>>, in_packet |-> FALSE]
         ELSE [buf |-> buf, in_packet |-> FALSE]

\* the buffer with the first pkt_len bytes left as they are
KeepPacket(buf, pkt_len) == buf

\* the buffer once the packet of pkt_len bytes is removed (lines 704-714)
ConsumePacket(buf, pkt_len) ==
    IF Len(buf) > pkt_len THEN SubSeq(buf, pkt_len + 1, Len(buf)) ELSE <<>>

\* one iteration of the while loop (lines 645-719) on state s with byte ch;
\* s = [buf, in_packet, msg, mq, oob, sent, lost]
RxByte(s, ch) ==
    IF Len(s.buf) >= UART_RX_BUFFER_SIZE - 1
    THEN [s EXCEPT !.buf = <<>>, !.in_packet = FALSE]
    ELSE
      LET b1 == Append(s.buf, ch)
          s1 == IF ~s.in_packet THEN SeekStart(b1)
                ELSE [buf |-> b1, in_packet |-> TRUE]
          pkt_end == strstr(s1.buf, PKT_END)
      IN
      IF s1.in_packet /\ pkt_end # 0
      THEN
        LET pkt_len == pkt_end - 1 + Len(PKT_END)
            m == BuildMsg(s1.buf, pkt_len)
            full == rt_mq_full(s.mq)
        IN [buf |-> ConsumePacket(s1.buf, pkt_len),
            in_packet |-> FALSE,
            msg |-> m,
            mq |-> rt_mq_send(s.mq, m),
            oob |-> s.oob \/ MsgOverflows(pkt_len),
            sent |-> IF full THEN s.sent ELSE Append(s.sent, m),
            lost |-> IF full THEN Append(s.lost, m) ELSE s.lost]
      ELSE [s EXCEPT !.buf = s1.buf, !.in_packet = s1.in_packet]

RECURSIVE RxLoop(_, _)
\* the while loop over the bytes rt_device_read has to give: the bytes are
\* taken in order, the first half of them and then the rest
RxLoop(s, bytes) ==
    IF bytes = <<>> THEN s
    ELSE IF Len(bytes) = 1 THEN RxByte(s, bytes[1])
    ELSE CHOOSE r \in {RxLoop(t, SubSeq(bytes, (Len(bytes) \div 2) + 1, Len(bytes))) :
                          t \in {RxLoop(s, SubSeq(bytes, 1, Len(bytes) \div 2))}} : TRUE

\* the loop run from the current state on `bytes`
RxRun(bytes) ==
    RxLoop([buf |-> uart_rx_buffer, in_packet |-> in_packet, msg |-> rx_msg,
            mq |-> uart_msg_queue, oob |-> oob_write,
            sent |-> <<>>, lost |-> <<>>], bytes)

\* the callback invoked with `bytes` readable from the device
esp32_uart_rx_callback(bytes) ==
    \E s \in {RxRun(bytes)} :
       /\ uart_rx_buffer' = s.buf
       /\ in_packet' = s.in_packet
       /\ rx_msg' = s.msg
       /\ uart_msg_queue' = s.mq
       /\ oob_write' = s.oob

\* history kept alongside a callback invocation: the frames sent and lost
RxHistory(bytes) ==
    \E s \in {RxRun(bytes)} :
       /\ emitted' = emitted \o s.sent
       /\ dropped' = dropped \o s.lost

\* ------------------------------------------------------------------------
\* Checksum and field extraction
\* ------------------------------------------------------------------------
\* a checksum that depends on the order of the bytes: the first byte alone
first_byte_checksum(data) == IF data = <<>> THEN 0 ELSE Ord(data[1])

\* a checksum that keeps the low four bits of the sum only
low_bits_checksum(data) == SumOrd(data, 1, Len(data)) % 16

calculate_checksum(data) ==
    CHOOSE r \in {SumOrd(s, 1, Len(s)) % 256 : s \in {data}} : TRUE

\* a verification that accepts every checksum
verify_none(type, data, received_checksum) == TRUE

verify_checksum(type, data, received_checksum) ==
    LET combined == Truncate(type \o data, COMBINED_SIZE)
    IN calculate_checksum(combined) = received_checksum

\* an extraction that runs to the END marker whatever delimiter comes first
extract_to_end(packet, field_name, max_len) ==
    LET search_str == Truncate(field_name \o <<":">>, 32)
        start == strstr(packet, search_str)
        rest == Tail_(packet, start + Len(search_str))
        end == strstr(rest, PKT_END)
    IN IF start = 0 \/ end = 0 THEN <<>>
       ELSE SubSeq(rest, 1, IF end - 1 >= max_len THEN max_len - 1 ELSE end - 1)

\* extract_packet_field(packet, field_name, output, max_len): the C string left
\* in output
extract_packet_field(packet, field_name, max_len) ==
    LET search_str == Truncate(field_name \o <<":">>, 32)
        start == strstr(packet, search_str)
        rest == Tail_(packet, start + Len(search_str))
        delim == strstr(rest, PKT_DELIMITER)
        end == IF delim # 0 THEN delim ELSE strstr(rest, PKT_END)
        len == end - 1
    IN IF start = 0 THEN <<>>
       ELSE IF end = 0 THEN <<>>
       ELSE SubSeq(rest, 1, IF len >= max_len THEN max_len - 1 ELSE len)

\* ------------------------------------------------------------------------
\* Task table and its display
\* ------------------------------------------------------------------------
Slots == 1..MAX_TASK_COUNT

\* a task_info_t after rt_memset(.., 0, ..)
ZeroTask ==
    [title |-> <<>>, list_name |-> <<>>, list_num |-> 0, task_num |-> 0,
     is_valid |-> FALSE]

ZeroTable == [i \in Slots |-> ZeroTask]

\* the text of a label: a fixed text, or the printed lines of the task list;
\* "NULL" stands for a label that is not created yet
NullLabel == [text |-> "NULL", lines |-> <<>>]
NoTasksText == [text |-> "No tasks available\nPress GET to load tasks", lines |-> <<>>]
NoTasksLoadedText == [text |-> "No tasks loaded\nPress GET to load tasks", lines |-> <<>>]

\* the index label showing n, and the index label not created yet
IndexText(n) == [shown |-> TRUE, val |-> n]
NullIndex == [shown |-> FALSE, val |-> 0]

\* the lines update_task_display prints: one <<number, title, list name>> per
\* valid slot below current_task_count
DisplayLines(arr, count) ==
    LET V == {i \in Slots : i <= count /\ arr[i].is_valid}
    IN [k \in 1..Cardinality(V) |->
          LET i == CHOOSE j \in V : Cardinality({x \in V : x < j}) = k - 1
          IN <<i, arr[i].title, arr[i].list_name>>]

\* update_task_display on table state t = [arr, count, sel, label, idx];
\* guider_ui.task_label is NULL until setup_scr_screen has run
update_task_display(t) ==
    IF t.label = NullLabel THEN t
    ELSE [t EXCEPT !.label = IF t.count = 0 THEN NoTasksText
                             ELSE [text |-> "", lines |-> DisplayLines(t.arr, t.count)]]

update_selected_index_display(t) ==
    IF t.idx = NullIndex THEN t
    ELSE [t EXCEPT !.idx = IndexText(t.sel)]

\* ------------------------------------------------------------------------
\* parse_comma_separated_tasks
\* ------------------------------------------------------------------------
NO_TASKS == <<"N", "O", "_", "T", "A", "S", "K", "S">>

\* the token without its leading and trailing blanks (lines 294-296)
Trim(token) ==
    LET NB == {i \in 1..Len(token) : ~IsSpace(token[i])}
    IN IF NB = {} THEN <<>>
       ELSE SubSeq(token, Min(NB), CHOOSE i \in NB : \A j \in NB : j <= i)

IsListDigit(c) == c \in {"1", "2", "3", "4", "5", "6", "7", "8", "9"}

\* the loop body on one trimmed token (lines 300-332);
\* c = [arr, task_index, current_list_name, current_list_num]
ParseToken(c, token) ==
    IF Len(token) >= 2 /\ IsListDigit(token[1]) /\ token[2] = "."
    THEN
      LET after == Tail_(token, 3)
          second_dot == strchr(after, ".")
      IN IF second_dot = 0
         THEN [c EXCEPT !.current_list_num = DigitVal(token[1]),
                        !.current_list_name = Prefix(after, LIST_NAME_SIZE - 1)]
         ELSE [c EXCEPT
                 !.arr[c.task_index + 1] =
                     [title |-> Prefix(Tail_(after, second_dot + 1), TITLE_SIZE - 1),
                      list_name |-> Prefix(c.current_list_name, LIST_NAME_SIZE - 1),
                      list_num |-> DigitVal(token[1]),
                      task_num |-> atoi(after),
                      is_valid |-> TRUE],
                 !.task_index = c.task_index + 1]
    ELSE c

RECURSIVE ParseLoopNoCap(_, _, _)
\* a token loop that goes on while a token is left, whatever task_index is
ParseLoopNoCap(c, data, pos) ==
    LET S == {i \in pos..Len(data) : data[i] # DATA_DELIMITER}
        start == Min(S)
        E == {i \in start..Len(data) : data[i] = DATA_DELIMITER}
        end == IF E = {} THEN Len(data) + 1 ELSE Min(E)
    IN IF S = {} THEN c
       ELSE CHOOSE r \in {ParseLoopNoCap(d, data, end + 1) :
                            d \in {ParseToken(c, Trim(SubSeq(data, start, end - 1)))}} : TRUE

RECURSIVE ParseLoop(_, _, _)
\* strtok over data from 1-based position pos, while a token is left and
\* task_index < MAX_TASK_COUNT (lines 286-335)
ParseLoop(c, data, pos) ==
    LET S == {i \in pos..Len(data) : data[i] # DATA_DELIMITER}
        start == Min(S)
        E == {i \in start..Len(data) : data[i] = DATA_DELIMITER}
        end == IF E = {} THEN Len(data) + 1 ELSE Min(E)
    IN IF S = {} \/ c.task_index >= MAX_TASK_COUNT THEN c
       ELSE CHOOSE r \in {ParseLoop(d, data, end + 1) :
                            d \in {ParseToken(c, Trim(SubSeq(data, start, end - 1)))}} : TRUE

\* the selected index after the adjustment of lines 343-352
ClampSelected(t) ==
    IF t.sel > t.count /\ t.count > 0
    THEN update_selected_index_display([t EXCEPT !.sel = t.count])
    ELSE IF t.count = 0
    THEN update_selected_index_display([t EXCEPT !.sel = 1])
    ELSE t

\* parse_comma_separated_tasks(task_data) on table state t; malloc_ok says
\* whether rt_malloc returns memory
parse_comma_separated_tasks(t, task_data, malloc_ok) ==
    IF rt_strlen(task_data) = 0
    THEN update_task_display([t EXCEPT !.count = 0])
    ELSE
      LET cleared == [t EXCEPT !.arr = ZeroTable, !.count = 0] IN
      IF CStr(task_data) = NO_TASKS THEN update_task_display(cleared)
      ELSE IF ~malloc_ok THEN cleared
      ELSE
        LET c == ParseLoop([arr |-> ZeroTable, task_index |-> 0,
                            current_list_name |-> <<>>, current_list_num |-> 0],
                           CStr(task_data), 1)
        IN ClampSelected(update_task_display(
               [t EXCEPT !.arr = c.arr, !.count = c.task_index]))

\* ------------------------------------------------------------------------
\* process_esp32_packet
\* ------------------------------------------------------------------------
Str_TYPE == <<"T", "Y", "P", "E">>
Str_DATA == <<"D", "A", "T", "A">>
Str_CHECKSUM == <<"C", "H", "E", "C", "K", "S", "U", "M">>
Str_TASKS == <<"T", "A", "S", "K", "S">>
Str_RESULT == <<"R", "E", "S", "U", "L", "T">>
Str_ERROR == <<"E", "R", "R", "O", "R">>
Str_STATUS == <<"S", "T", "A", "T", "U", "S">>
Str_HELP == <<"H", "E", "L", "P">>
Str_TEST == <<"T", "E", "S", "T">>

\* a dispatch that takes every verified packet for a task list
PacketKindAllTasks(type) == "TASKS"

\* what the dispatch of lines 394-425 does with a verified packet
PacketKind(type) ==
    IF type = Str_TASKS THEN "TASKS"
    ELSE IF type = Str_RESULT THEN "RESULT"
    ELSE IF type = Str_ERROR THEN "ERROR"
    ELSE IF type = Str_STATUS THEN "STATUS"
    ELSE IF type = Str_HELP THEN "HELP"
    ELSE IF type = Str_TEST THEN "TEST"
    ELSE "Unknown"

\* the step at which process_esp32_packet leaves: "start", "end", "checksum"
\* for the three rejections, the packet kind otherwise
PacketOutcome(packet) ==
    LET type == extract_packet_field(packet, Str_TYPE, TYPE_SIZE)
        data == extract_packet_field(packet, Str_DATA, DATA_SIZE)
        checksum_str == extract_packet_field(packet, Str_CHECKSUM, CHECKSUM_STR_SIZE)
    IN IF strstr(packet, PKT_START) # 1 THEN "start"
       ELSE IF strstr(packet, PKT_END) = 0 THEN "end"
       ELSE IF ~verify_checksum(type, data, atoi(checksum_str)) THEN "checksum"
       ELSE PacketKind(type)

\* process_esp32_packet(packet) on table state t
process_esp32_packet(t, packet, malloc_ok) ==
    IF PacketOutcome(packet) = "TASKS"
    THEN parse_comma_separated_tasks(
             t, extract_packet_field(packet, Str_DATA, DATA_SIZE), malloc_ok)
    ELSE t

\* ------------------------------------------------------------------------
\* Table state as one record, and the mutex
\* ------------------------------------------------------------------------
TableState ==
    [arr |-> task_info_array, count |-> current_task_count,
     sel |-> selected_task_index, label |-> task_label, idx |-> index_label]

SetTable(t) ==
    /\ task_info_array' = t.arr
    /\ current_task_count' = t.count
    /\ selected_task_index' = t.sel
    /\ task_label' = t.label
    /\ index_label' = t.idx

\* rt_mutex_take by thread th with the mutex free or already its own (recursive)
MutexFreeFor(th) == ui_mutex.owner \in {"none", th}

rt_mutex_take(th) ==
    [owner |-> th, hold |-> IF ui_mutex.owner = th THEN ui_mutex.hold + 1 ELSE 1]

\* rt_mutex_release by the owner; a thread suspended on the mutex is handed it
rt_mutex_release(waiter) ==
    IF ui_mutex.hold > 1 THEN [ui_mutex EXCEPT !.hold = ui_mutex.hold - 1]
    ELSE IF waiter # "none" THEN [owner |-> waiter, hold |-> 1]
    ELSE [owner |-> "none", hold |-> 0]

\* the record of an access to the table or the UI text by thread th
Access(th) == [who |-> th, locked |-> ui_mutex.owner = th]

\* ------------------------------------------------------------------------
\* uart_msg_process_thread_entry (the worker thread)
\* ------------------------------------------------------------------------
\* a receive that takes the newest message of the queue
WorkerRecvNewest ==
    /\ pc.worker = "recv"
    /\ uart_msg_queue # <<>>
    /\ msg' = uart_msg_queue[Len(uart_msg_queue)]
    /\ uart_msg_queue' = SubSeq(uart_msg_queue, 1, Len(uart_msg_queue) - 1)
    /\ pc' = [pc EXCEPT !.worker = "take"]
    /\ UNCHANGED <<uart_rx_buffer, in_packet, rx_msg, oob_write, ui_mutex>>
    /\ UNCHANGED <<tablevars, devvars, histvars>>

\* rt_mq_recv(.., RT_WAITING_FOREVER): the head of the queue, once there is one
WorkerRecv ==
    /\ pc.worker = "recv"
    /\ uart_msg_queue # <<>>
    /\ msg' = Head(uart_msg_queue)
    /\ uart_msg_queue' = Tail(uart_msg_queue)
    /\ pc' = [pc EXCEPT !.worker = "take"]
    /\ UNCHANGED <<uart_rx_buffer, in_packet, rx_msg, oob_write, ui_mutex>>
    /\ UNCHANGED <<tablevars, devvars, histvars>>

\* rt_mutex_take(ui_mutex, RT_WAITING_FOREVER): taken when free, else the
\* thread is suspended on the mutex until the owner hands it over
WorkerTake ==
    /\ pc.worker = "take"
    /\ IF MutexFreeFor("worker")
       THEN /\ ui_mutex' = rt_mutex_take("worker")
            /\ pc' = [pc EXCEPT !.worker = "process"]
       ELSE /\ pc' = [pc EXCEPT !.worker = "wait"]
            /\ UNCHANGED ui_mutex
    /\ UNCHANGED <<rxvars, tablevars, msg, devvars, histvars>>

\* the C string process_esp32_packet finds at msg.data: a message whose frame
\* did not fit data[] has no terminator, and the string runs on into whatever
\* follows the array
PacketSeen(m, garbage) ==
    IF m.len < UART_MSG_MAX_SIZE THEN CStr(m.data) ELSE CStr(m.data \o garbage)

GarbageAfter(m) ==
    IF m.len < UART_MSG_MAX_SIZE THEN {<<>>} ELSE {<<>>, <<"?">>}

\* process_esp32_packet(msg.data) with the mutex held
WorkerProcess ==
    /\ pc.worker = "process"
    /\ \E malloc_ok \in BOOLEAN, garbage \in GarbageAfter(msg) :
         LET packet == PacketSeen(msg, garbage) IN
         /\ SetTable(process_esp32_packet(TableState, packet, malloc_ok))
         /\ touch' = IF PacketOutcome(packet) = "TASKS" THEN Access("worker") ELSE touch
    /\ dispatched' = Append(dispatched, msg)
    /\ pc' = [pc EXCEPT !.worker = "release"]
    /\ UNCHANGED <<rxvars, ui_mutex, msg, devvars, wire, fed, emitted, dropped>>

WorkerRelease ==
    /\ pc.worker = "release"
    /\ ui_mutex' = rt_mutex_release("none")
    /\ pc' = [pc EXCEPT !.worker = "recv"]
    /\ UNCHANGED <<rxvars, tablevars, msg, devvars, histvars>>

\* ------------------------------------------------------------------------
\* send_command_to_esp32 and the button handlers
\* ------------------------------------------------------------------------
CMD_SIZE == 64
Str_get == <<"g", "e", "t">>
Str_finish == <<"f", "i", "n", "i", "s", "h", " ">>
Str_delete == <<"d", "e", "l", "e", "t", "e", " ">>
CRLF == <<"\r", "\n">>

\* "%d" of an int
FmtInt(n) == IF n < 0 THEN <<"-">> \o Dec(0 - n) ELSE Dec(n)

\* the bytes on the serial output after send_command_to_esp32(command)
send_command_to_esp32(out, dev, command) ==
    IF dev = "NULL" THEN out ELSE out \o command \o CRLF

\* rt_snprintf(cmd, sizeof(cmd), "<verb> %d.%d", task->list_num, task->task_num)
TaskCommand(verb, task) ==
    Truncate(verb \o FmtInt(task.list_num) \o <<".">> \o FmtInt(task.task_num), CMD_SIZE)

\* the handlers run inside lv_task_handler; each takes ui_mutex with a timeout
\* (recursively when the LVGL thread already holds it), and does nothing when
\* the take times out
HandlerLocked == [who |-> "lvgl", locked |-> TRUE]

\* LV_EVENT_RELEASED of btn_up_event_handler
btn_up_event_handler ==
    /\ IF MutexFreeFor("lvgl")
       THEN /\ SetTable(IF selected_task_index > 1
                        THEN update_selected_index_display(
                                 [TableState EXCEPT !.sel = selected_task_index - 1])
                        ELSE TableState)
            /\ touch' = HandlerLocked
       ELSE UNCHANGED <<tablevars, touch>>
    /\ UNCHANGED uart_out

\* a down handler that moves the selection whatever the count is
btn_down_unbounded ==
    /\ SetTable(update_selected_index_display(
                    [TableState EXCEPT !.sel = selected_task_index + 1]))
    /\ touch' = HandlerLocked
    /\ UNCHANGED uart_out

\* LV_EVENT_RELEASED of btn_down_event_handler
btn_down_event_handler ==
    /\ IF MutexFreeFor("lvgl")
       THEN /\ SetTable(IF /\ selected_task_index < current_task_count
                           /\ current_task_count > 0
                        THEN update_selected_index_display(
                                 [TableState EXCEPT !.sel = selected_task_index + 1])
                        ELSE TableState)
            /\ touch' = HandlerLocked
       ELSE UNCHANGED <<tablevars, touch>>
    /\ UNCHANGED uart_out

\* a finish/delete handler that sends the command of the slot under the
\* selected index without looking at the count
TaskButtonNoRange(verb) ==
    /\ uart_out' =
          IF selected_task_index \in 1..MAX_TASK_COUNT
             /\ task_info_array[selected_task_index].is_valid
          THEN send_command_to_esp32(uart_out, esp32_uart_dev,
                   TaskCommand(verb, task_info_array[selected_task_index]))
          ELSE uart_out
    /\ touch' = HandlerLocked
    /\ UNCHANGED tablevars

\* btn_finish_event_handler and btn_delete_event_handler differ in the verb
TaskButton(verb) ==
    /\ IF MutexFreeFor("lvgl")
       THEN /\ uart_out' =
                 IF /\ selected_task_index > 0
                    /\ selected_task_index <= current_task_count
                    /\ task_info_array[selected_task_index].is_valid
                 THEN send_command_to_esp32(uart_out, esp32_uart_dev,
                          TaskCommand(verb, task_info_array[selected_task_index]))
                 ELSE uart_out
            /\ touch' = HandlerLocked
       ELSE UNCHANGED <<uart_out, touch>>
    /\ UNCHANGED tablevars

btn_finish_event_handler == TaskButton(Str_finish)

btn_delete_event_handler == TaskButton(Str_delete)

\* btn_get_event_handler takes no mutex and reads no shared state
btn_get_event_handler ==
    /\ uart_out' = send_command_to_esp32(uart_out, esp32_uart_dev, Str_get)
    /\ UNCHANGED <<tablevars, touch>>

\* ------------------------------------------------------------------------
\* lvgl_thread_entry (the LVGL thread)
\* ------------------------------------------------------------------------
LvOnly == <<rxvars, tablevars, msg, devvars, histvars>>

\* rt_mutex_create; the thread returns when it fails
LvCreateMutex ==
    /\ pc.lvgl = "create_mutex"
    /\ \E ok \in BOOLEAN :
         IF ok THEN /\ ui_mutex' = [owner |-> "none", hold |-> 0]
                    /\ pc' = [pc EXCEPT !.lvgl = "create_queue"]
         ELSE /\ pc' = [pc EXCEPT !.lvgl = "exit"]
              /\ UNCHANGED ui_mutex
    /\ UNCHANGED LvOnly

\* rt_mq_create
LvCreateQueue ==
    /\ pc.lvgl = "create_queue"
    /\ \E ok \in BOOLEAN :
         pc' = [pc EXCEPT !.lvgl = IF ok THEN "start_worker" ELSE "exit"]
    /\ UNCHANGED <<ui_mutex, LvOnly>>

\* rt_thread_init and rt_thread_startup of the worker
LvStartWorker ==
    /\ pc.lvgl = "start_worker"
    /\ \E ok \in BOOLEAN :
         pc' = IF ok THEN [pc EXCEPT !.lvgl = "uart_init", !.worker = "recv"]
               ELSE [pc EXCEPT !.lvgl = "exit"]
    /\ UNCHANGED <<ui_mutex, LvOnly>>

\* esp32_uart_init: the device is not found ("NULL"), found but not opened
\* ("found"), or opened with the receive callback set ("open")
esp32_uart_init ==
    /\ pc.lvgl = "uart_init"
    /\ \E dev \in {"NULL", "found", "open"} : esp32_uart_dev' = dev
    /\ pc' = [pc EXCEPT !.lvgl = "init_table"]
    /\ UNCHANGED <<rxvars, tablevars, ui_mutex, msg, uart_out, histvars>>

\* the loop that zeroes task_info_array (lines 900-905)
LvInitTable ==
    /\ pc.lvgl = "init_table"
    /\ task_info_array' = ZeroTable
    /\ touch' = Access("lvgl")
    /\ pc' = [pc EXCEPT !.lvgl = "setup_ui"]
    /\ UNCHANGED <<rxvars, current_task_count, selected_task_index, task_label,
                   index_label, ui_mutex, msg, devvars, wire, fed, emitted,
                   dropped, dispatched>>

\* setup_scr_screen: the labels get their first texts
setup_scr_screen ==
    /\ pc.lvgl = "setup_ui"
    /\ task_label' = NoTasksLoadedText
    /\ index_label' = IndexText(1)
    /\ touch' = Access("lvgl")
    /\ pc' = [pc EXCEPT !.lvgl = "loop"]
    /\ UNCHANGED <<rxvars, task_info_array, current_task_count, selected_task_index,
                   ui_mutex, msg, devvars, wire, fed, emitted, dropped, dispatched>>

\* rt_mutex_take(ui_mutex, 10) of the main loop: taken, or timed out while the
\* worker holds it
LvTake ==
    /\ pc.lvgl = "loop"
    /\ IF MutexFreeFor("lvgl")
       THEN /\ ui_mutex' = rt_mutex_take("lvgl")
            /\ pc' = [pc EXCEPT !.lvgl = "held"]
       ELSE /\ pc' = [pc EXCEPT !.lvgl = "delay"]
            /\ UNCHANGED ui_mutex
    /\ UNCHANGED LvOnly

\* lv_task_handler delivering one button release to its handler
LvButton ==
    /\ pc.lvgl = "held"
    /\ Len(uart_out) < MaxOut
    /\ \/ btn_up_event_handler
       \/ btn_down_event_handler
       \/ btn_finish_event_handler
       \/ btn_delete_event_handler
       \/ btn_get_event_handler
    /\ UNCHANGED <<rxvars, threadvars, esp32_uart_dev, wire, fed, emitted, dropped,
                   dispatched>>

\* a release that leaves a thread suspended on the mutex where it is
LvReleaseNoHandoff ==
    /\ pc.lvgl = "held"
    /\ ui_mutex' = rt_mutex_release("none")
    /\ pc' = [pc EXCEPT !.lvgl = "delay"]
    /\ UNCHANGED LvOnly

\* rt_mutex_release of the main loop; a worker suspended on the mutex gets it
LvRelease ==
    /\ pc.lvgl = "held"
    /\ LET waiter == IF pc.worker = "wait" THEN "worker" ELSE "none" IN
       /\ ui_mutex' = rt_mutex_release(waiter)
       /\ pc' = [pc EXCEPT !.lvgl = "delay",
                           !.worker = IF waiter = "worker" THEN "process" ELSE @]
    /\ UNCHANGED LvOnly

\* rt_thread_mdelay(LV_DISP_DEF_REFR_PERIOD)
LvDelay ==
    /\ pc.lvgl = "delay"
    /\ pc' = [pc EXCEPT !.lvgl = "loop"]
    /\ UNCHANGED <<ui_mutex, LvOnly>>

\* ------------------------------------------------------------------------
\* The peer and the serial driver
\* ------------------------------------------------------------------------
\* n copies of byte c
Rep(c, n) == [i \in 1..n |-> c]

Str_TYPE_ == Str_TYPE \o <<":">>
Str_DATA_ == PKT_DELIMITER \o Str_DATA \o <<":">>
Str_CHECKSUM_ == PKT_DELIMITER \o Str_CHECKSUM \o <<":">>

\* the frame the peer builds for (type, data) with checksum field sum
MkFrame(type, data, sum) ==
    PKT_START \o Str_TYPE_ \o type \o Str_DATA_ \o data \o Str_CHECKSUM_ \o sum \o PKT_END

\* the well-formed frame for (type, data)
MkPacket(type, data) == MkFrame(type, data, Dec(calculate_checksum(type \o data)))

\* the message the callback builds for a frame that fits uart_msg_t.data
MsgOf(frame) == [data |-> frame \o <<NUL>>, len |-> Len(frame)]

\* the state the program is in once lvgl_thread_entry has reached its main
\* loop with the serial device open and nothing received yet
Running ==
    /\ uart_rx_buffer = <<>>
    /\ in_packet = FALSE
    /\ rx_msg = [data |-> <<>>, len |-> 0]
    /\ uart_msg_queue = <<>>
    /\ oob_write = FALSE
    /\ task_info_array = ZeroTable
    /\ current_task_count = 0
    /\ selected_task_index = 1
    /\ task_label = NoTasksLoadedText
    /\ index_label = IndexText(1)
    /\ ui_mutex = [owner |-> "none", hold |-> 0]
    /\ pc = [lvgl |-> "loop", worker |-> "recv"]
    /\ msg = [data |-> <<>>, len |-> 0]
    /\ esp32_uart_dev = "open"
    /\ uart_out = <<>>
    /\ fed = <<>>
    /\ emitted = <<>>
    /\ dropped = <<>>
    /\ dispatched = <<>>
    /\ touch = [who |-> "none", locked |-> TRUE]

\* the receive interrupt: the callback runs on the next k bytes of the wire
Deliver(k) ==
    /\ esp32_uart_dev = "open"
    /\ k \in 1..Len(wire)
    /\ esp32_uart_rx_callback(SubSeq(wire, 1, k))
    /\ RxHistory(SubSeq(wire, 1, k))
    /\ wire' = SubSeq(wire, k + 1, Len(wire))

\* Deliver with the bytes also kept in the history fed
DeliverFed(k) ==
    /\ Deliver(k)
    /\ fed' = fed \o SubSeq(wire, 1, k)
    /\ UNCHANGED <<tablevars, threadvars, devvars, dispatched, touch>>

\* ------------------------------------------------------------------------
\* Reference: the frames of a whole stream
\* ------------------------------------------------------------------------
RECURSIVE BatchFrom(_, _)
\* the non-overlapping PKT_START ... PKT_END spans of s from position pos on,
\* scanning left to right
BatchFrom(s, pos) ==
    LET rest == Tail_(s, pos)
        st == FirstMatch(rest, PKT_START)
        body == Tail_(rest, st + Len(PKT_START))
        en == FirstMatch(body, PKT_END)
        span == Len(PKT_START) + en - 1 + Len(PKT_END)
    IN IF st = 0 THEN <<>>
       ELSE IF en = 0 THEN <<>>
       ELSE <<SubSeq(rest, st, st + span - 1)>> \o BatchFrom(s, pos + st - 1 + span)

Batch(s) == BatchFrom(s, 1)

\* the frames of a sequence of queue messages
FramesOf(msgs) == [i \in 1..Len(msgs) |-> SubSeq(msgs[i].data, 1, msgs[i].len)]

\* ------------------------------------------------------------------------
\* Sample payloads and frames of the peer
\* ------------------------------------------------------------------------
Data_Work == <<"1", ".", "W", ",", "1", ".", "1", ".", "a">>
Data_Two == <<"1", ".", "W", ",", "1", ".", "1", ".", "a", ",", "1", ".", "2", ".", "b">>
Data_ok == <<"o", "k">>

Frame_Tasks == MkPacket(Str_TASKS, Data_Work)
Frame_Tasks2 == MkPacket(Str_TASKS, Data_Two)
Frame_NoTasks == MkPacket(Str_TASKS, NO_TASKS)
Frame_Result == MkPacket(Str_RESULT, Data_ok)

\* ------------------------------------------------------------------------
\* SpecNoise: line noise, then a frame, one byte per callback
\* ------------------------------------------------------------------------
NoiseLens == (NOISE_THRESHOLD - 12)..(NOISE_THRESHOLD + 2)

NoiseStreams ==
    {Rep("x", n) \o Frame_Tasks \o Frame_Result : n \in NoiseLens}

InitNoise ==
    /\ Running
    /\ wire \in NoiseStreams

NextNoise == DeliverFed(1)

SpecNoise == InitNoise /\ [][NextNoise]_vars

\* C1: streaming equals batch -- as long as the queue has not refused a
\* frame, the frames placed on the queue are the PKT_START...PKT_END spans of
\* the bytes fed so far, in order
C1_StreamingEqualsBatch ==
    dropped = <<>> => FramesOf(emitted) = Batch(fed)

\* ------------------------------------------------------------------------
\* SpecLive: line noise, then valid frames back to back for ever
\* ------------------------------------------------------------------------
\* a valid frame of NOISE_THRESHOLD + 1 bytes: no marker in its body, shorter
\* than uart_msg_t.data
Frame_Long ==
    PKT_START \o Rep("a", NOISE_THRESHOLD + 1 - Len(PKT_START) - Len(PKT_END)) \o PKT_END

LiveFrames == {Frame_Long, Frame_Result}

LiveNoiseLens == {0, NOISE_THRESHOLD - 4, NOISE_THRESHOLD + 1}

InitLive ==
    /\ Running
    /\ wire \in {Rep("x", n) : n \in LiveNoiseLens}

\* the callback runs on the next LiveChunk bytes of the wire, or what is left
LiveDeliver ==
    /\ wire # <<>>
    /\ LET k == IF Len(wire) < LiveChunk THEN Len(wire) ELSE LiveChunk IN
       /\ esp32_uart_rx_callback(SubSeq(wire, 1, k))
       /\ wire' = SubSeq(wire, k + 1, Len(wire))
    /\ UNCHANGED <<tablevars, threadvars, devvars, fed, emitted, dropped,
                   dispatched, touch>>

\* the peer sends its next frame
LiveFrame ==
    /\ wire = <<>>
    /\ wire' \in LiveFrames
    /\ UNCHANGED <<rxvars, tablevars, threadvars, devvars, fed, emitted, dropped,
                   dispatched, touch>>

NextLive == LiveDeliver \/ LiveFrame

\* bytes keep arriving
SpecLive == InitLive /\ [][NextLive]_vars /\ WF_vars(NextLive)

\* C2: the Reassembler never gets stuck -- after any noise prefix, with valid
\* frames arriving back to back, a frame is eventually placed on the queue
C2_EventuallyEmits == <>(uart_msg_queue # <<>>)

\* ------------------------------------------------------------------------
\* SpecOverflow: frames that fill the accumulation buffer or the message
\* ------------------------------------------------------------------------
\* START and n filler bytes with no END marker: with n = OverflowFill the
\* buffer is full (uart_rx_index = UART_RX_BUFFER_SIZE - 1) after its last byte
OverflowFill == UART_RX_BUFFER_SIZE - 1 - Len(PKT_START)

Oversized(n) == PKT_START \o Rep("x", n)

\* a frame with no marker in its body, shorter than the accumulation buffer
\* and longer than uart_msg_t.data: data ends inside its END marker
BigLen == UART_MSG_MAX_SIZE + Len(PKT_END) - 1

Frame_Big ==
    PKT_START \o Rep("a", BigLen - Len(PKT_START) - Len(PKT_END)) \o PKT_END

OverflowStreams ==
    {Oversized(n) \o Frame_Tasks : n \in {OverflowFill, OverflowFill + 1}}
    \cup {Frame_Big \o Frame_Tasks}

InitOverflow ==
    /\ Running
    /\ wire \in OverflowStreams

\* one invocation of the callback on a block of the stream
DeliverBlock ==
    /\ Len(wire) > OverTail
    /\ DeliverFed(IF Len(wire) - OverTail < OverBlock
                  THEN Len(wire) - OverTail ELSE OverBlock)

\* one invocation per byte for the end of the stream
DeliverByte ==
    /\ Len(wire) <= OverTail
    /\ DeliverFed(1)

NextOverflow == DeliverBlock \/ DeliverByte

SpecOverflow == InitOverflow /\ [][NextOverflow]_vars

\* the stream fed is an oversized frame (START and at least enough bytes to
\* fill the buffer, no END) followed by the valid frame f
OversizedThen(f) ==
    /\ wire = <<>>
    /\ Len(fed) - Len(f) >= UART_RX_BUFFER_SIZE - 1
    /\ SubSeq(fed, Len(fed) - Len(f) + 1, Len(fed)) = f
    /\ MatchAt(fed, PKT_START, 1)
    /\ FirstMatch(SubSeq(fed, 1, Len(fed) - Len(f)), PKT_END) = 0

\* C3: overflow recovery -- after an oversized frame of any length the next
\* valid frame is enqueued complete, and the oversized one is not enqueued
C3_OverflowRecovery ==
    OversizedThen(Frame_Tasks) => emitted = <<MsgOf(Frame_Tasks)>>

\* C4: every message on the queue holds a frame that fits uart_msg_t.data
\* with its terminator, and no write went past the end of data
C4_FrameFitsMessage ==
    /\ ~oob_write
    /\ \A i \in 1..Len(uart_msg_queue) : uart_msg_queue[i].len <= UART_MSG_MAX_SIZE - 1

\* ------------------------------------------------------------------------
\* SpecChunk: one frame, grouped into callback invocations in every way
\* ------------------------------------------------------------------------
ChunkFrames == {Frame_Tasks, Frame_Tasks2, Frame_NoTasks, Frame_Result, Frame_Big}

InitChunk ==
    /\ Running
    /\ wire \in ChunkFrames

\* one invocation reading any number of the bytes still to come
DeliverChunk ==
    /\ Len(wire) <= OverTail
    /\ \E k \in 1..Len(wire) : DeliverFed(k)

NextChunk == DeliverBlock \/ DeliverChunk

SpecChunk == InitChunk /\ [][NextChunk]_vars

\* C5: chunking invariance -- once a single valid frame shorter than the
\* accumulation buffer has been fed, in whatever grouping, it has been emitted
\* exactly once and byte-identical
C5_ChunkingInvariance ==
    (wire = <<>> /\ Len(fed) < UART_RX_BUFFER_SIZE - 1)
        => emitted = <<MsgOf(fed)>>

\* ------------------------------------------------------------------------
\* SpecQueue: more frames than the queue holds, with the worker draining it
\* ------------------------------------------------------------------------
QueueStream ==
    Frame_Result \o Frame_Tasks \o Frame_NoTasks \o Frame_Tasks2 \o Frame_Result
    \o Frame_Tasks \o Frame_Tasks2

InitQueue ==
    /\ Running
    /\ wire = QueueStream

\* the worker thread, from rt_mq_recv to rt_mutex_release
Worker == WorkerRecv \/ WorkerTake \/ WorkerProcess \/ WorkerRelease

NextQueue == DeliverFed(1) \/ Worker

SpecQueue == InitQueue /\ [][NextQueue]_vars

\* a step in which the bytes fed come to hold one more whole frame
FrameCompleted == Len(Batch(fed')) > Len(Batch(fed))

\* C8: the queue never holds more than UART_MSG_QUEUE_SIZE messages, and a
\* frame completed while it holds that many is dropped in one step of the
\* callback: queue contents and order unchanged, the frame removed from the
\* accumulation buffer, the callback back to seeking, no thread blocked
C8_QueueFullDrop ==
    /\ [](Len(uart_msg_queue) <= UART_MSG_QUEUE_SIZE)
    /\ [][(Len(uart_msg_queue) = UART_MSG_QUEUE_SIZE /\ FrameCompleted)
            => /\ uart_msg_queue' = uart_msg_queue
               /\ uart_rx_buffer' = <<>>
               /\ in_packet' = FALSE
               /\ pc' = pc]_vars

\* a frame has been dropped at a full queue and the callback is seeking again
C8_Witness ==
    /\ dropped # <<>>
    /\ Len(uart_msg_queue) = UART_MSG_QUEUE_SIZE
    /\ uart_rx_buffer = <<>>
    /\ ~in_packet
    /\ wire # <<>>

\* ------------------------------------------------------------------------
\* Spec: the whole program from the entry of lvgl_thread_entry, the peer
\* sending a few frames
\* ------------------------------------------------------------------------
PeerStreams ==
    {Frame_Tasks2 \o Frame_Result \o Frame_Tasks,
     Frame_Tasks \o Frame_NoTasks \o Frame_Tasks2}

\* the statics as the C start-up code leaves them, no thread started but the
\* LVGL thread
Init ==
    /\ uart_rx_buffer = <<>>
    /\ in_packet = FALSE
    /\ rx_msg = [data |-> <<>>, len |-> 0]
    /\ uart_msg_queue = <<>>
    /\ oob_write = FALSE
    /\ task_info_array = ZeroTable
    /\ current_task_count = 0
    /\ selected_task_index = 1
    /\ task_label = NullLabel
    /\ index_label = NullIndex
    /\ ui_mutex = [owner |-> "none", hold |-> 0]
    /\ pc = [lvgl |-> "create_mutex", worker |-> "off"]
    /\ msg = [data |-> <<>>, len |-> 0]
    /\ esp32_uart_dev = "NULL"
    /\ uart_out = <<>>
    /\ wire \in PeerStreams
    /\ fed = <<>>
    /\ emitted = <<>>
    /\ dropped = <<>>
    /\ dispatched = <<>>
    /\ touch = [who |-> "none", locked |-> TRUE]

\* the number of bytes up to the end of the first frame on the wire
FrameEnd(w) ==
    CHOOSE r \in {IF e = 0 THEN Len(w) ELSE e + Len(PKT_END) - 1 :
                  e \in {FirstMatch(w, PKT_END)}} : TRUE

\* the receive interrupt with one whole frame of the peer to read
DeliverFrame ==
    /\ wire # <<>>
    /\ DeliverFed(FrameEnd(wire))

LvThread ==
    \/ LvCreateMutex
    \/ LvCreateQueue
    \/ LvStartWorker
    \/ esp32_uart_init
    \/ LvInitTable
    \/ setup_scr_screen
    \/ LvTake
    \/ LvButton
    \/ LvRelease
    \/ LvDelay

Next == LvThread \/ Worker \/ DeliverFrame

Spec == Init /\ [][Next]_vars

\* C6: the frames dispatched are the first frames enqueued, in the order of
\* their enqueueing; the one frame the worker holds is the next of them, and
\* it is processed with ui_mutex held by the worker
C6_FifoDispatch ==
    /\ Len(dispatched) <= Len(emitted)
    /\ \A i \in 1..Len(dispatched) : dispatched[i] = emitted[i]
    /\ pc.worker \in {"take", "wait", "process"}
          => /\ Len(dispatched) < Len(emitted)
             /\ msg = emitted[Len(dispatched) + 1]
    /\ pc.worker = "release" => msg = dispatched[Len(dispatched)]
    /\ pc.worker \in {"process", "release"} => ui_mutex.owner = "worker"

\* two frames are dispatched and the third waits on the queue
C6_Witness ==
    /\ Len(dispatched) = 2
    /\ Len(uart_msg_queue) = 1
    /\ pc.worker = "release"

\* C7: every access to the task table, the selected index or the display
\* text is made by a thread that holds ui_mutex, start-up included
C7_MutexDiscipline == touch.locked

\* ------------------------------------------------------------------------
\* SpecFair: Spec with the scheduling the threads get
\* ------------------------------------------------------------------------
\* the worker leaving process_esp32_packet: the step of WorkerProcess as seen
\* on pc (WorkerProcess is the only action of Next that takes it)
WorkerReturns ==
    /\ pc.worker = "process"
    /\ pc' = [pc EXCEPT !.worker = "release"]

\* the worker thread runs whenever it is ready, process_esp32_packet returns,
\* and lv_task_handler returns, so that the main loop reaches its
\* rt_mutex_release
SpecFair ==
    /\ Spec
    /\ WF_vars(WorkerRecv)
    /\ WF_vars(WorkerTake)
    /\ WF_pc(WorkerReturns)
    /\ WF_vars(WorkerRelease)
    /\ WF_vars(LvRelease)

\* the number of frames the peer sends
PeerFrameCount == Len(Batch(CHOOSE w \in PeerStreams : TRUE))

\* C9: every frame enqueued is eventually dispatched, and dispatched once:
\* the k-th frame enqueued becomes the k-th frame dispatched
C9_EventuallyDispatched ==
    /\ \A k \in 1..PeerFrameCount :
           (Len(emitted) >= k) ~> (Len(dispatched) >= k /\ dispatched[k] = emitted[k])
    /\ [](Len(dispatched) <= Len(emitted))

\* every frame of the peer has been enqueued and dispatched
C9_Witness ==
    /\ wire = <<>>
    /\ Len(dispatched) = PeerFrameCount
    /\ dispatched = emitted
    /\ uart_msg_queue = <<>>

\* ------------------------------------------------------------------------
\* SpecPacket: process_esp32_packet on well-formed and malformed packets
\* ------------------------------------------------------------------------
\* a checksum field that is not the checksum of (type, data)
WrongSum(type, data) == Dec((calculate_checksum(type \o data) + 1) % 256)

\* START marker not at offset 0
Pkt_Shifted == <<"x">> \o Frame_Tasks2
\* no START marker
Pkt_NoStart == Tail(Frame_Tasks2)
\* no END marker
Pkt_NoEnd == SubSeq(Frame_Tasks2, 1, Len(Frame_Tasks2) - 1)
\* checksum mismatch
Pkt_BadSum == MkFrame(Str_TASKS, Data_Two, WrongSum(Str_TASKS, Data_Two))
\* no CHECKSUM field
Pkt_NoSum == PKT_START \o Str_TYPE_ \o Str_TASKS \o Str_DATA_ \o Data_Two \o PKT_END
\* a CHECKSUM field that is no number
Pkt_TextSum == MkFrame(Str_TASKS, Data_Two, <<"a", "b">>)

BadPackets == {Pkt_Shifted, Pkt_NoStart, Pkt_NoEnd, Pkt_BadSum, Pkt_NoSum, Pkt_TextSum}

PacketInputs == {Frame_Tasks, Frame_Tasks2} \cup BadPackets

BadMsgs == {MsgOf(p) : p \in BadPackets}

InitPacket ==
    /\ Running
    /\ wire = <<>>

\* a message holding any of the packets comes onto the queue
PacketArrives ==
    /\ Len(emitted) < MaxPackets
    /\ ~rt_mq_full(uart_msg_queue)
    /\ \E p \in PacketInputs :
         /\ uart_msg_queue' = rt_mq_send(uart_msg_queue, MsgOf(p))
         /\ emitted' = Append(emitted, MsgOf(p))
    /\ UNCHANGED <<uart_rx_buffer, in_packet, rx_msg, oob_write, tablevars,
                   threadvars, devvars, wire, fed, dropped, dispatched, touch>>

NextPacket == PacketArrives \/ Worker

SpecPacket == InitPacket /\ [][NextPacket]_vars

\* C10: the dispatch of a frame with the START marker not at offset 0, with
\* no END marker, or with a CHECKSUM field that is wrong, absent or no number
\* leaves the task table, the count, the selected index and both label texts
\* as they were
C10_RejectNoEffect ==
    [][(pc.worker = "process" /\ pc'.worker = "release" /\ msg \in BadMsgs)
          => UNCHANGED tablevars]_vars

\* a malformed frame has been dispatched with tasks in the table
C10_Witness ==
    /\ pc.worker = "release"
    /\ msg \in BadMsgs
    /\ dispatched # <<>> /\ dispatched[Len(dispatched)] = msg
    /\ current_task_count > 0

\* ------------------------------------------------------------------------
\* SpecType: process_esp32_packet on verified packets of every type
\* ------------------------------------------------------------------------
Str_PING == <<"P", "I", "N", "G">>
Str_tasks == <<"t", "a", "s", "k", "s">>

\* verified packets whose type is not TASKS: the five other known types, an
\* unknown type, and TASKS in lower case, each with a task list as its data
NonTaskPackets ==
    {MkPacket(type, Data_Two) :
        type \in {Str_RESULT, Str_ERROR, Str_STATUS, Str_HELP, Str_TEST,
                  Str_PING, Str_tasks}}

TypeInputs == {Frame_Tasks} \cup NonTaskPackets

NonTaskMsgs == {MsgOf(p) : p \in NonTaskPackets}

\* a message holding one of the packets P comes onto the queue
Arrives(P) ==
    /\ Len(emitted) < MaxPackets
    /\ ~rt_mq_full(uart_msg_queue)
    /\ \E p \in P :
         /\ uart_msg_queue' = rt_mq_send(uart_msg_queue, MsgOf(p))
         /\ emitted' = Append(emitted, MsgOf(p))
    /\ UNCHANGED <<uart_rx_buffer, in_packet, rx_msg, oob_write, tablevars,
                   threadvars, devvars, wire, fed, dropped, dispatched, touch>>

TypeArrives == Arrives(TypeInputs)

NextType == TypeArrives \/ Worker

SpecType == InitPacket /\ [][NextType]_vars

\* C11: the dispatch of a verified packet of type RESULT, ERROR, STATUS, HELP,
\* TEST or of an unrecognised type leaves the task table, the count and the
\* selected index as they were
C11_OnlyTasksMutates ==
    [][(pc.worker = "process" /\ pc'.worker = "release" /\ msg \in NonTaskMsgs)
          => UNCHANGED <<task_info_array, current_task_count, selected_task_index>>]_vars

\* a verified packet that is no task list has been dispatched with tasks in
\* the table
C11_Witness ==
    /\ pc.worker = "release"
    /\ msg \in NonTaskMsgs
    /\ dispatched # <<>> /\ dispatched[Len(dispatched)] = msg
    /\ PacketOutcome(CStr(msg.data)) \in {"RESULT", "ERROR", "STATUS", "HELP", "TEST", "Unknown"}
    /\ current_task_count > 0

\* ------------------------------------------------------------------------
\* SpecRound: packets built by the peer from a type and a data text
\* ------------------------------------------------------------------------
\* a task list with the text "CHECKSUM:5" as the title of its task
Data_Sum ==
    <<"1", ".", "W", ",", "1", ".", "1", ".">> \o Str_CHECKSUM \o <<":", "5">>

\* texts without '|' and without a marker
RoundTypes == {Str_TASKS, Str_PING}
RoundData == {<<>>, Data_Two, Data_Sum}

RoundPairs == RoundTypes \X RoundData

RoundArrives == Arrives({MkPacket(pr[1], pr[2]) : pr \in RoundPairs})

NextRound == RoundArrives \/ Worker

SpecRound == InitPacket /\ [][NextRound]_vars

\* C12: the packet built from a type and a data text, with the checksum of
\* type followed by data, passes the validation of process_esp32_packet and is
\* dispatched as that type with that data
C12_RoundTrip ==
    pc.worker = "process" =>
       \A pr \in RoundPairs :
          msg = MsgOf(MkPacket(pr[1], pr[2])) =>
             /\ PacketOutcome(CStr(msg.data)) = PacketKind(pr[1])
             /\ extract_packet_field(CStr(msg.data), Str_DATA, DATA_SIZE) = pr[2]

\* ------------------------------------------------------------------------
\* The checksum and the order of type and data (under SpecRound)
\* ------------------------------------------------------------------------
\* the TYPE and DATA fields process_esp32_packet extracts from the message
\* the worker holds
MsgType == extract_packet_field(CStr(msg.data), Str_TYPE, TYPE_SIZE)
MsgData == extract_packet_field(CStr(msg.data), Str_DATA, DATA_SIZE)

\* C13 as the specification states it: some type and data have a checksum
\* over type followed by data that differs from the checksum over data
\* followed by type -- here, some packet among those the peer has sent
C13_OrderSensitive ==
    emitted # <<>> =>
       \E i \in 1..Len(emitted) :
          LET type == extract_packet_field(CStr(emitted[i].data), Str_TYPE, TYPE_SIZE)
              data == extract_packet_field(CStr(emitted[i].data), Str_DATA, DATA_SIZE)
          IN calculate_checksum(type \o data) # calculate_checksum(data \o type)

\* C13 as the code has it: the checksum does not depend on the order of type
\* and data -- for every packet the worker dispatches, the checksum of type
\* followed by data also verifies data followed by type
C13_OrderInsensitive ==
    pc.worker = "process" =>
       verify_checksum(MsgData, MsgType, calculate_checksum(MsgType \o MsgData))

\* the worker verifies a packet whose type and data differ as texts in
\* either order
C13_Witness ==
    /\ pc.worker = "process"
    /\ msg = MsgOf(MkPacket(Str_TASKS, Data_Two))
    /\ MsgType = Str_TASKS /\ MsgData = Data_Two
    /\ MsgType \o MsgData # MsgData \o MsgType

\* ------------------------------------------------------------------------
\* One corrupted character of DATA (under SpecRound)
\* ------------------------------------------------------------------------
\* the characters a character of DATA is replaced with
CorruptChars == {Ascii[k] : k \in 1..Len(Ascii)}

\* data with its i-th character replaced by c
Corrupt(data, i, c) == [data EXCEPT ![i] = c]

\* C14: the checksum of type followed by data verifies (type, data), and it
\* verifies no (type, data') with data' got from data by replacing one
\* character with a different one -- for the type and data of the packet the
\* worker dispatches (checked where it is the only packet sent so far)
C14_CorruptionDetected ==
    (pc.worker = "process" /\ Len(emitted) = 1) =>
       \A sum \in {calculate_checksum(MsgType \o MsgData)} :
          /\ verify_checksum(MsgType, MsgData, sum)
          /\ \A i \in 1..Len(MsgData) :
                \A c \in CorruptChars \ {MsgData[i]} :
                   ~verify_checksum(MsgType, Corrupt(MsgData, i, c), sum)

\* the worker verifies a task list, and rejects it with its first character
\* replaced
C14_Witness ==
    /\ pc.worker = "process"
    /\ Len(emitted) = 1
    /\ MsgData = Data_Two
    /\ verify_checksum(MsgType, MsgData, calculate_checksum(MsgType \o MsgData))
    /\ ~verify_checksum(MsgType, Corrupt(MsgData, 1, "2"),
                        calculate_checksum(MsgType \o MsgData))

\* ------------------------------------------------------------------------
\* SpecExtract: extract_packet_field on packets with and without each field
\* ------------------------------------------------------------------------
\* a type as long as the buffer type[] of process_esp32_packet
Pkt_LongType == MkPacket(Rep("T", TYPE_SIZE), Data_ok)
\* a CHECKSUM field as long as checksum_str[] (zeros: atoi stays an int)
Pkt_LongSum == MkFrame(Str_TASKS, Data_ok, Rep("0", CHECKSUM_STR_SIZE))

ExtractInputs == {Frame_Tasks2, Pkt_NoSum, Pkt_NoEnd, Pkt_LongType, Pkt_LongSum}

ExtractArrives == Arrives(ExtractInputs)

NextExtract == ExtractArrives \/ Worker

SpecExtract == InitPacket /\ [][NextExtract]_vars

\* the field as the claim describes it: the text after the first "<name>:"
\* up to the next '|', or with no '|' following up to the END marker; empty
\* when the name is absent or neither follows
FieldText(packet, name) ==
    LET key == name \o <<":">>
        at == FirstMatch(packet, key)
        after == SubSeq(packet, at + Len(key), Len(packet))
        bar == FirstMatch(after, PKT_DELIMITER)
        en == FirstMatch(after, PKT_END)
    IN IF at = 0 THEN <<>>
       ELSE IF bar # 0 THEN SubSeq(after, 1, bar - 1)
       ELSE IF en # 0 THEN SubSeq(after, 1, en - 1)
       ELSE <<>>

\* the three extractions of process_esp32_packet: field name and buffer size
FieldSizes == {<<Str_TYPE, TYPE_SIZE>>, <<Str_DATA, DATA_SIZE>>,
               <<Str_CHECKSUM, CHECKSUM_STR_SIZE>>}

Data_Five == <<"1", ".", "W", ",", "1", ".", "1", ".", "a", ",", "2", ".", "H", ",", "2", ".", "1", ".", "b", ",", "2", ".", "2", ".", "c">>
\* blanks around tokens, tokens of no known shape, a title with a dot and a
\* blank, a task number of two digits, a task before any list header
Data_Mixed == <<" ", "2", ".", "1", "0", ".", "c", " ", "d", " ", ",", " ", "x", ",", "3", ".", "H", ",", ",", "3", ".", "1", ".", "e", ".", "f", " ", ",", "9">>
\* a title longer than task_info_t.title
Data_LongTitle == <<"1", ".", "W", ",", "1", ".", "1", ".">> \o Rep("t", TITLE_SIZE)

ParseData == {Data_Two, Data_Five, Data_Mixed, Data_LongTitle}

ParseArrives == Arrives({MkPacket(Str_TASKS, d) : d \in ParseData})

NextParse == ParseArrives \/ Worker

SpecParse == InitPacket /\ [][NextParse]_vars

\* the task entries of each payload, read off its text: list number, task
\* number and title of every token of the shape digit.number.title, in order
TaskEntries(d) ==
    CASE d = Data_Two -> << <<1, 1, <<"a">> >>, <<1, 2, <<"b">> >> >>
      [] d = Data_Five -> << <<1, 1, <<"a">> >>, <<2, 1, <<"b">> >>, <<2, 2, <<"c">> >> >>
      [] d = Data_Mixed -> << <<2, 10, <<"c", " ", "d">> >>, <<3, 1, <<"e", ".", "f">> >> >>
      [] d = Data_LongTitle -> << <<1, 1, Rep("t", TITLE_SIZE)>> >>

\* the table is exactly the entries e: slot i holds the i-th entry, every
\* other slot is zeroed
TableIs(e) ==
    /\ current_task_count = Len(e)
    /\ \A i \in Slots :
          IF i <= Len(e)
          THEN /\ task_info_array[i].is_valid
               /\ task_info_array[i].list_num = e[i][1]
               /\ task_info_array[i].task_num = e[i][2]
               /\ task_info_array[i].title = e[i][3]
          ELSE task_info_array[i] = ZeroTask

\* C16: once a TASKS packet with a task list is dispatched, the table holds
\* the task entries of its payload in token order and nothing else
C16_ParseReplaces ==
    pc.worker = "release" =>
       \A d \in ParseData :
          msg = MsgOf(MkPacket(Str_TASKS, d)) => TableIs(TaskEntries(d))

\* ------------------------------------------------------------------------
\* SpecSelect: the running program, the peer sending task lists that shrink
\* and empty the table while buttons are pressed
\* ------------------------------------------------------------------------
\* a TASKS packet with an empty DATA field
Frame_Empty == MkPacket(Str_TASKS, <<>>)

SelectStreams ==
    {Frame_Tasks2 \o Frame_NoTasks \o Frame_Tasks,
     Frame_Tasks2 \o Frame_Empty \o Frame_Tasks}

InitSelect == Running /\ wire \in SelectStreams

\* the main loop of lvgl_thread_entry
LvLoop == LvTake \/ LvButton \/ LvRelease \/ LvDelay

NextSelect == LvLoop \/ Worker \/ DeliverFrame

SpecSelect == InitSelect /\ [][NextSelect]_vars

\* the worker has returned from process_esp32_packet on this frame and still
\* holds the mutex
Dispatched(frame) == pc.worker = "release" /\ msg = MsgOf(frame)

\* C17: once a TASKS packet with DATA "NO_TASKS" is dispatched, whatever the
\* table and the selection were, every slot is zeroed, the count is 0 and the
\* selected index is 1
C17_NoTasksResets ==
    Dispatched(Frame_NoTasks) =>
       /\ task_info_array = ZeroTable
       /\ current_task_count = 0
       /\ selected_task_index = 1

\* the worker returns from process_esp32_packet on this frame
Dispatches(frame) ==
    /\ pc.worker = "process"
    /\ msg = MsgOf(frame)
    /\ pc'.worker = "release"

\* C18: dispatching a TASKS packet with an empty DATA field leaves, from every
\* state, what dispatching DATA "NO_TASKS" leaves from that state: every slot
\* zeroed, the count 0, the same selected index and the same labels
C18_EmptyLikeNoTasks ==
    [][Dispatches(Frame_Empty) =>
          /\ TableState' = process_esp32_packet(TableState, Frame_NoTasks, TRUE)
          /\ task_info_array' = ZeroTable
          /\ current_task_count' = 0]_vars

\* the worker is not between taking and releasing ui_mutex
WorkerIdle == ui_mutex.owner # "worker"

\* C19: while the worker is not inside a dispatch, the count is within
\* 0..MAX_TASK_COUNT, the first count slots are valid and all later slots are
\* invalid
C19_TableLayout ==
    WorkerIdle =>
       /\ current_task_count \in 0..MAX_TASK_COUNT
       /\ \A i \in Slots : task_info_array[i].is_valid <=> i <= current_task_count

Max(a, b) == IF a >= b THEN a ELSE b

\* C20: while the worker is not inside a dispatch, the selected index is
\* within 1..max(count, 1), and it is 1 when the table is empty
C20_SelectionInRange ==
    WorkerIdle =>
       /\ selected_task_index \in 1..Max(current_task_count, 1)
       /\ current_task_count = 0 => selected_task_index = 1

\* ------------------------------------------------------------------------
\* SpecCapacity: TASKS packets with as many task tokens as the table holds,
\* and more
\* ------------------------------------------------------------------------
\* the task token "1.n.tn"
TaskToken(n) == <<"1", ".">> \o FmtInt(n) \o <<".", "t">> \o FmtInt(n)

RECURSIVE TaskTokens(_, _)
\* the task tokens from..to, each after a comma
TaskTokens(from, to) ==
    IF from > to THEN <<>>
    ELSE <<",">> \o TaskToken(from) \o TaskTokens(from + 1, to)

\* the list header "1.W" followed by n task tokens
Data_Many(n) == <<"1", ".", "W">> \o TaskTokens(1, n)

CapacityCounts == {MAX_TASK_COUNT, MAX_TASK_COUNT + 1, MAX_TASK_COUNT + ExtraTasks}

CapacityArrives == Arrives({MkPacket(Str_TASKS, Data_Many(n)) : n \in CapacityCounts})

NextCapacity == CapacityArrives \/ Worker

SpecCapacity == InitPacket /\ [][NextCapacity]_vars

\* the first task entries of Data_Many(n), as many as the table holds
ManyEntries(n) ==
    [k \in 1..(IF n < MAX_TASK_COUNT THEN n ELSE MAX_TASK_COUNT) |->
        <<1, k, <<"t">> \o FmtInt(k)>>]

\* the message on the worker's hands is the packet with n task tokens
ManyMsg(n) == msg = MsgOf(MkPacket(Str_TASKS, Data_Many(n)))

C22_SelectionMoves ==
    [][/\ (LvButton /\ btn_down_event_handler) =>
             /\ selected_task_index' =
                   IF selected_task_index = current_task_count \/ current_task_count = 0
                   THEN selected_task_index ELSE selected_task_index + 1
             /\ UNCHANGED <<task_info_array, current_task_count>>
       /\ (LvButton /\ btn_up_event_handler) =>
             /\ selected_task_index' =
                   IF selected_task_index = 1
                   THEN selected_task_index ELSE selected_task_index - 1
             /\ UNCHANGED <<task_info_array, current_task_count>>]_vars

\* the selection has been moved down to the last task and the index label
\* shows it
C22_Witness ==
    /\ pc.lvgl = "held"
    /\ current_task_count = 2
    /\ selected_task_index = current_task_count
    /\ index_label = IndexText(2)

\* what the task label shows when it renders the table as it is
Rendered ==
    IF current_task_count = 0 THEN NoTasksText
    ELSE [text |-> "", lines |-> DisplayLines(task_info_array, current_task_count)]

\* C23: once a verified TASKS packet is dispatched, on whatever path of the
\* parser, the task label shows the table the packet has left
C23_DisplayRefreshed ==
    (pc.worker = "release" /\ PacketOutcome(CStr(msg.data)) = "TASKS") =>
       task_label = Rendered

\* ------------------------------------------------------------------------
\* SpecCommand: the main loop and the worker after esp32_uart_init has ended
\* in any of its three ways
\* ------------------------------------------------------------------------
InitCommand ==
    /\ uart_rx_buffer = <<>>
    /\ in_packet = FALSE
    /\ rx_msg = [data |-> <<>>, len |-> 0]
    /\ uart_msg_queue = <<>>
    /\ oob_write = FALSE
    /\ task_info_array = ZeroTable
    /\ current_task_count = 0
    /\ selected_task_index = 1
    /\ task_label = NoTasksLoadedText
    /\ index_label = IndexText(1)
    /\ ui_mutex = [owner |-> "none", hold |-> 0]
    /\ pc = [lvgl |-> "loop", worker |-> "recv"]
    /\ msg = [data |-> <<>>, len |-> 0]
    /\ esp32_uart_dev \in {"NULL", "found", "open"}
    /\ uart_out = <<>>
    /\ wire \in SelectStreams
    /\ fed = <<>>
    /\ emitted = <<>>
    /\ dropped = <<>>
    /\ dispatched = <<>>
    /\ touch = [who |-> "none", locked |-> TRUE]

SpecCommand == InitCommand /\ [][NextSelect]_vars

\* a record is addressable: the selected index is within 1..count and the
\* slot under it is valid
Addressable ==
    /\ current_task_count > 0
    /\ selected_task_index \in 1..current_task_count
    /\ task_info_array[selected_task_index].is_valid

\* the bytes the claim expects of a finish or delete press
CommandBytes(verb) ==
    IF Addressable /\ esp32_uart_dev # "NULL"
    THEN verb \o FmtInt(task_info_array[selected_task_index].list_num) \o <<".">>
              \o FmtInt(task_info_array[selected_task_index].task_num) \o CRLF
    ELSE <<>>

\* C24: a finish or delete press writes "finish L.T" or "delete L.T" and the
\* line terminator for the record under the selected index, and writes nothing
\* when no record is addressable or the serial device is not there
C24_TaskCommand ==
    [][/\ (LvButton /\ btn_finish_event_handler) =>
             uart_out' = uart_out \o CommandBytes(Str_finish)
       /\ (LvButton /\ btn_delete_event_handler) =>
             uart_out' = uart_out \o CommandBytes(Str_delete)]_vars

\* a delete command for the second task has gone out
C24_Witness ==
    /\ uart_out = Str_delete \o <<"1", ".", "2">> \o CRLF
    /\ selected_task_index = 2

\* ------------------------------------------------------------------------
\* SpecBind: TASKS packets whose task tokens and list headers are out of step
\* ------------------------------------------------------------------------
\* tasks of list 2 under the header of list 1, a task of list 1 under the
\* header of list 2
Data_Cross == <<"1", ".", "W", ",", "2", ".", "1", ".", "a", ",", "2", ".", "H", ",", "1", ".", "2", ".", "b">>
\* a task with no list header in the payload
Data_Headless == <<"1", ".", "1", ".", "a">>
\* a list header whose name is longer than task_info_t.list_name
Data_LongList == <<"1", ".">> \o Rep("L", LIST_NAME_SIZE) \o <<",", "1", ".", "1", ".", "a">>

BindData == {Data_Cross, Data_Headless, Data_Mixed, Data_LongList}

BindArrives == Arrives({MkPacket(Str_TASKS, d) : d \in BindData})

NextBind == BindArrives \/ Worker

SpecBind == InitPacket /\ [][NextBind]_vars

\* for each task entry of the payload, read off its text: the name of the last
\* list header before it (empty when there is none) and its own leading digit
ListBindings(d) ==
    CASE d = Data_Cross -> << <<<<"W">>, 2>>, <<<<"H">>, 1>> >>
      [] d = Data_Headless -> << <<<<>>, 1>> >>
      [] d = Data_Mixed -> << <<<<>>, 2>>, <<<<"H">>, 3>> >>
      [] d = Data_LongList -> << <<Rep("L", LIST_NAME_SIZE), 1>> >>

\* C25: every record a TASKS packet has stored carries the name of the last
\* list header before its token in that payload, the empty name when there is
\* none, and the leading digit of its own token as list number
C25_LastSeenWins ==
    pc.worker = "release" =>
       \A d \in BindData :
          msg = MsgOf(MkPacket(Str_TASKS, d)) =>
             \A i \in 1..current_task_count :
                /\ i <= Len(ListBindings(d))
                /\ task_info_array[i].list_name = ListBindings(d)[i][1]
                /\ task_info_array[i].list_num = ListBindings(d)[i][2]

\* ------------------------------------------------------------------------
\* SpecBound: streams that drive the write cursor to its limits, one byte per
\* invocation of the callback
\* ------------------------------------------------------------------------
BoundStreams ==
    \* noise up to and past the threshold, then a frame
    {Rep("x", n) \o Frame_Tasks : n \in {NOISE_THRESHOLD - 1, NOISE_THRESHOLD + 1}}
    \* a frame behind a NUL byte, which hides it from strstr, and more noise
    \cup {<<NUL>> \o Frame_Tasks \o Rep("x", NOISE_THRESHOLD)}
    \* a frame that never ends and fills the buffer, then a frame
    \cup {Oversized(OverflowFill + 1) \o Frame_Tasks}
    \* a frame whose END marker is behind a NUL byte, then bytes up to the
    \* limit of the buffer, then a frame
    \cup {PKT_START \o <<NUL>> \o PKT_END
            \o Rep("x", OverflowFill - Len(PKT_END)) \o Frame_Tasks}

InitBound == Running /\ wire \in BoundStreams

NextBound == DeliverFed(1)

SpecBound == InitBound /\ [][NextBound]_vars

\* C26: after every byte the write cursor is at most UART_RX_BUFFER_SIZE - 1,
\* so that the byte and the terminator after it are stored inside the buffer,
\* and while no START marker has been found the buffer holds at most
\* NOISE_THRESHOLD bytes
C26_BoundedAccumulation ==
    /\ uart_rx_index <= UART_RX_BUFFER_SIZE - 1
    /\ ~in_packet => uart_rx_index <= NOISE_THRESHOLD

\* the write cursor at its limit inside a frame that has not ended
C26_Witness ==
    /\ in_packet
    /\ uart_rx_index = UART_RX_BUFFER_SIZE - 1
    /\ Len(fed) = UART_RX_BUFFER_SIZE - 1

\* ------------------------------------------------------------------------
\* SpecFrame: frames back to back, behind noise, and longer than a message,
\* one byte per invocation of the callback
\* ------------------------------------------------------------------------
FrameStreams ==
    {Frame_Tasks \o Frame_Result \o Frame_NoTasks,
     Rep("x", NOISE_THRESHOLD - Len(PKT_START)) \o Frame_Tasks2 \o Frame_Result,
     Frame_Big \o Frame_Tasks}

InitFrame == Running /\ wire \in FrameStreams

SpecFrame == InitFrame /\ [][NextBound]_vars

\* the frame in message m begins with the START marker and ends with the
\* first END marker in it
WellFramed(m) ==
    LET f == CStr(m.data) IN
    /\ MatchAt(f, PKT_START, 1)
    /\ FirstMatch(f, PKT_END) > 0
    /\ FirstMatch(f, PKT_END) = Len(f) - Len(PKT_END) + 1

\* C27: inside a frame the buffer begins with the START marker; every frame put
\* on the queue begins with START, ends with END and has no END before, and
\* passes the START and END tests of process_esp32_packet; right after a frame
\* is put on the queue the buffer is empty and the callback is seeking
C27_FramingInvariant ==
    /\ [](/\ in_packet => MatchAt(uart_rx_buffer, PKT_START, 1)
          /\ \A i \in 1..Len(emitted) :
                /\ WellFramed(emitted[i])
                /\ \A garbage \in GarbageAfter(emitted[i]) :
                      PacketOutcome(PacketSeen(emitted[i], garbage))
                         \notin {"start", "end"})
    /\ [][emitted' # emitted => uart_rx_buffer' = <<>> /\ ~in_packet']_vars

====
